---- MODULE Spec2Model ----
(***************************************************************************)
(* POP tracer budget tools (src/tracer_budget_tools.py).                   *)
(*                                                                         *)
(* The functions of the module are array transformations.  Arrays are      *)
(* functions over 0-based index sets; a cell holds either the missing      *)
(* value NaN or an exact rational <<n, d>> in lowest terms (d = 0 stands   *)
(* for an infinity of the sign of n).  Signed zeros are not distinguished. *)
(* The budget-term functions broadcast over the time axis of their flux    *)
(* fields, so those fields are modelled for one time sample; the tendency  *)
(* function, which works along time, keeps the time axis.                  *)
(***************************************************************************)
EXTENDS Integers

VARIABLES
    tarea,        \* cell area (nlat, nlon)
    dz,           \* cell height (z_t)
    kmt,          \* max vertical index (nlat, nlon), plain integers
    region_mask,  \* region ids (nlat, nlon), plain integers
    vol3d,        \* cell volume (z_t, nlat, nlon) handed to the budget terms
    ds1,          \* first variable read from the dataset (z, nlat, nlon)
    ds2,          \* second variable read from the dataset (z, nlat, nlon)
    consts,       \* scalar constants read from the dataset (surface flux)
    nt,           \* number of time samples (time.shape[0])
    time_bnd,     \* bounds of each averaging period in days (time, d2)
    var_zint,     \* the array object passed to tracer_budget_tend_appr
    fn,           \* name of the function called last ("none" before any call)
    args,         \* arguments of the last call (scalars; values passed in var_zint)
    out           \* array returned by the last call

vars == <<tarea, dz, kmt, region_mask, vol3d, ds1, ds2, consts, nt, time_bnd,
          var_zint, fn, args, out>>

----------------------------------------------------------------------------
(* Bounds of the model *)

NZ == 2
NLat == 2
NLon == 2
MaxNT == 4

Z == 0 .. NZ - 1
Lat == 0 .. NLat - 1
Lon == 0 .. NLon - 1

\* value of a variable the session does not use
Unset == <<>>

----------------------------------------------------------------------------
(* float64 values: NaN, or a rational in lowest terms *)

NaN == <<>>

IsNaN(x) == x = NaN

Abs(n) == IF n < 0 THEN -n ELSE n

Sgn(n) == IF n < 0 THEN -1 ELSE IF n > 0 THEN 1 ELSE 0

RECURSIVE GCD(_, _)
GCD(a, b) == IF b = 0 THEN a ELSE GCD(b, a % b)

Norm(n, d) ==
    IF d = 0
    THEN IF n = 0 THEN NaN ELSE <<Sgn(n), 0>>
    ELSE LET g == GCD(Abs(n), Abs(d))
         IN  <<Sgn(d) * (n \div g), Abs(d) \div g>>

Num(n) == <<n, 1>>

Zero == Num(0)

One == Num(1)

Half == <<1, 2>>

Neg(a) == IF IsNaN(a) THEN NaN ELSE <<-a[1], a[2]>>

Add(a, b) ==
    IF IsNaN(a) \/ IsNaN(b) THEN NaN
    ELSE IF a[2] = 0 /\ b[2] = 0
         THEN IF a[1] = b[1] THEN a ELSE NaN
         ELSE Norm(a[1] * b[2] + b[1] * a[2], a[2] * b[2])

Sub(a, b) == Add(a, Neg(b))

Mul(a, b) ==
    IF IsNaN(a) \/ IsNaN(b) THEN NaN
    ELSE Norm(a[1] * b[1], a[2] * b[2])

Recip(a) == IF IsNaN(a) THEN NaN ELSE Norm(a[2], a[1])

Div(a, b) ==
    IF IsNaN(a) \/ IsNaN(b) THEN NaN
    ELSE IF a[2] = 0 /\ b[2] = 0 THEN NaN
    ELSE Mul(a, Recip(b))

\* x != 0. : true of NaN
NeZero(x) == x # Zero

\* x.where(cond): x where cond holds, NaN elsewhere
Where(x, cond) == IF cond THEN x ELSE NaN

\* x.where(cond, other)
WhereElse(x, cond, other) == IF cond THEN x ELSE other

\* x.fillna(0.)
FillNa0(x) == IF IsNaN(x) THEN Zero ELSE x

\* sum over a set of levels with NaN skipped (DataArray.sum, skipna for floats)
RECURSIVE SumSkipNa(_, _)
SumSkipNa(col, S) ==
    IF S = {} THEN Zero
    ELSE LET k == CHOOSE x \in S : \A y \in S : x <= y
         IN  Add(FillNa0(col[k]), SumSkipNa(col, S \ {k}))

\* DataArray.shift(nlat=-1) and shift(nlon=-1) of a horizontal slab: position p
\* of the shifted axis holds what was at p + 1, the last position is NaN
Shift_nlat(f) == [j \in Lat |-> [i \in Lon |->
                   IF j + 1 \in Lat THEN f[j + 1][i] ELSE NaN]]

Shift_nlon(f) == [j \in Lat |-> [i \in Lon |->
                   IF i + 1 \in Lon THEN f[j][i + 1] ELSE NaN]]

\* Python slice lo:hi over an axis of length n
PyIdx(x, n) == IF x < 0 THEN (IF x + n < 0 THEN 0 ELSE x + n)
               ELSE (IF x > n THEN n ELSE x)

SliceLo(lo, n) == PyIdx(lo, n)

SliceLen(lo, hi, n) ==
    IF PyIdx(hi, n) > PyIdx(lo, n) THEN PyIdx(hi, n) - PyIdx(lo, n) ELSE 0

----------------------------------------------------------------------------
(* GridGeometry *)

\* vol3d[i,:,:] = vol3d[i].where(kmt > i), for the levels i, i+1, ... of the loop
RECURSIVE Vol3dLoop(_, _, _)
Vol3dLoop(v, kmtF, i) ==
    IF i >= NZ THEN v
    ELSE Vol3dLoop([v EXCEPT ![i] =
                       [j \in Lat |-> [l \in Lon |->
                           Where(v[i][j][l], kmtF[j][l] > i)]]],
                   kmtF, i + 1)

\* the mask taken as kmt >= i
vol3d_off_by_one(tareaF, dzF, kmtF) ==
    Vol3dLoop([k \in Z |-> [j \in Lat |-> [i \in Lon |->
                  Mul(dzF[k], tareaF[j][i])]]],
              [j \in Lat |-> [i \in Lon |-> kmtF[j][i] + 1]], 0)

tracer_budget_vol3d(tareaF, dzF, kmtF) ==
    Vol3dLoop([k \in Z |-> [j \in Lat |-> [i \in Lon |->
                  Mul(dzF[k], tareaF[j][i])]]], kmtF, 0)

\* the masked region ids returned without the division by themselves
mask2d_no_division(rmask, sel_area) ==
    [j \in Lat |-> [i \in Lon |->
        WhereElse(Num(rmask[j][i]), rmask[j][i] # sel_area, NaN)]]

tracer_budget_mask2d(rmask, sel_area) ==
    LET mask == [j \in Lat |-> [i \in Lon |->
                    WhereElse(Num(rmask[j][i]), rmask[j][i] # sel_area, NaN)]]
    IN  [j \in Lat |-> [i \in Lon |-> Div(mask[j][i], mask[j][i])]]

tracer_budget_mask3d(var3d) ==
    LET mask3d == [k \in Z |-> [j \in Lat |-> [i \in Lon |->
                      Div(var3d[k][j][i], var3d[k][j][i])]]]
    IN  [k \in Z |-> [j \in Lat |-> [i \in Lon |->
            WhereElse(mask3d[k][j][i], NeZero(mask3d[k][j][i]), NaN)]]]

----------------------------------------------------------------------------
(* FluxTermEngine *)

Shift3_nlat(f) == [k \in Z |-> Shift_nlat(f[k])]

Shift3_nlon(f) == [k \in Z |-> Shift_nlon(f[k])]

Mul3(f, g) == [k \in Z |-> [j \in Lat |-> [i \in Lon |-> Mul(f[k][j][i], g[k][j][i])]]]

\* the sum returned without the mask of its zeros
SumZUnmasked(v, S) ==
    [j \in Lat |-> [i \in Lon |-> SumSkipNa([k \in Z |-> v[k][j][i]], S)]]

\* .sum(dim='z_t') followed by .where(map != 0.)
SumZMasked(v, S) ==
    LET m == [j \in Lat |-> [i \in Lon |->
                 SumSkipNa([k \in Z |-> v[k][j][i]], S)]]
    IN  [j \in Lat |-> [i \in Lon |-> Where(m[j][i], NeZero(m[j][i]))]]

\* the operands var1 .. var4 of the divergence (same in lat_adv and hmix)
DivOperands(u_e, v_n, vol) ==
    LET vol_c == vol
        vol_w == Shift3_nlat(vol)
        vol_s == Shift3_nlon(vol)
        u_w == Shift3_nlat(u_e)
        v_s == Shift3_nlon(v_n)
    IN  [var1 |-> Mul3(u_e, vol_c), var2 |-> Mul3(u_w, vol_w),
         var3 |-> Mul3(v_n, vol_c), var4 |-> Mul3(v_s, vol_s),
         u_w |-> u_w, vol_w |-> vol_w, v_s |-> v_s, vol_s |-> vol_s]

tracer_budget_lat_adv_resolved(vol, u_e, v_n) ==
    LET o == DivOperands(u_e, v_n, vol)
        var5 == [k \in Z |-> [j \in Lat |-> [i \in Lon |->
                    Add(Sub(o.var2[k][j][i], o.var1[k][j][i]),
                        Sub(o.var4[k][j][i], o.var3[k][j][i]))]]]
    IN  SumZMasked(var5, Z)

\* the divergence taken with the sign of the advective term
hmix_wrong_sign(vol, u_e, v_n) == tracer_budget_lat_adv_resolved(vol, u_e, v_n)

tracer_budget_hmix(vol, u_e, v_n) ==
    LET o == DivOperands(u_e, v_n, vol)
        var5 == [k \in Z |-> [j \in Lat |-> [i \in Lon |->
                    Add(Sub(o.var1[k][j][i], o.var2[k][j][i]),
                        Sub(o.var3[k][j][i], o.var4[k][j][i]))]]]
    IN  SumZMasked(var5, Z)

tracer_budget_vert_adv_resolved(vol, FIELD) ==
    LET volc == vol[0]
        var1 == [j \in Lat |-> [i \in Lon |-> Mul(FIELD[1][j][i], volc[j][i])]]
    IN  [j \in Lat |-> [i \in Lon |-> Mul(Num(-1), var1[j][i])]]

\* the bottom term used without fillna(0.)
dia_vmix_no_fillna(tareaF, kmtF, klo, khi, FIELD) ==
    [j \in Lat |-> [i \in Lon |->
        Neg(Sub(Mul(FIELD[khi][j][i], WhereElse(tareaF[j][i], kmtF[j][i] > khi, Zero)),
                Mul(FIELD[klo][j][i], WhereElse(tareaF[j][i], kmtF[j][i] > klo, Zero))))]]

tracer_budget_dia_vmix(tareaF, kmtF, klo, khi, FIELD) ==
    LET tarea_bot == [j \in Lat |-> [i \in Lon |->
                         WhereElse(tareaF[j][i], kmtF[j][i] > khi, Zero)]]
        tarea_top == [j \in Lat |-> [i \in Lon |->
                         WhereElse(tareaF[j][i], kmtF[j][i] > klo, Zero)]]
        FIELD_BOT == [j \in Lat |-> [i \in Lon |->
                         Mul(FIELD[khi][j][i], tarea_bot[j][i])]]
        FIELD_TOP == [j \in Lat |-> [i \in Lon |->
                         Mul(FIELD[klo][j][i], tarea_top[j][i])]]
    IN  [j \in Lat |-> [i \in Lon |->
            Neg(Sub(FillNa0(FIELD_BOT[j][i]), FIELD_TOP[j][i]))]]

tracer_budget_adi_vmix(vol, klo, khi, FIELD) ==
    LET FIELD_BOT == [j \in Lat |-> [i \in Lon |->
                         Mul(FIELD[khi][j][i], vol[khi][j][i])]]
        FIELD_TOP == [j \in Lat |-> [i \in Lon |->
                         Mul(FIELD[klo][j][i], vol[klo][j][i])]]
    IN  [j \in Lat |-> [i \in Lon |->
            Neg(Sub(FillNa0(FIELD_BOT[j][i]), FIELD_TOP[j][i]))]]

\* tracer[:,klo:khi] * vol3d[klo:khi], summed over z_t, zeros masked
tracer_budget_var3d_zint_map(tracer, vol, klo, khi) ==
    LET lo == SliceLo(klo, NZ)
        S == {k \in Z : lo <= k /\ k < lo + SliceLen(klo, khi, NZ)}
    IN  SumZMasked(Mul3(tracer, vol), S)

HeatFluxNames == {"SHF", "QFLUX", "SENH_F", "LWDN_F", "LWUP_F", "SHF_QSW", "MELTH_F"}

FusionFluxNames == {"SNOW_F", "IOFF_F"}

\* `is_evap` is the outcome of the identity test var_name is "EVAP_F"
ScaleFactor(var_name, is_evap, c) ==
    LET rho_sw == Mul(c.rho_sw, <<1, 1000>>)
        cp_sw == Mul(Mul(c.cp_sw, <<1, 10000000>>), Num(1000))
        rho_cp == Mul(rho_sw, cp_sw)
        latvap == c.latent_heat_vapor
        latfus == Mul(Mul(c.latent_heat_fusion, <<1, 10000000>>), Num(1000))
    IN  IF var_name \in HeatFluxNames
        THEN Mul(<<1, 10000>>, Div(One, rho_cp))
        ELSE IF var_name \in FusionFluxNames
        THEN Mul(Mul(Neg(latfus), <<1, 10000>>), Div(One, rho_cp))
        ELSE IF is_evap
        THEN Mul(Mul(latvap, <<1, 10000>>), Div(One, rho_cp))
        ELSE One

tracer_budget_sflux(var_name, is_evap, area2d, c, FIELD) ==
    LET scale_factor == ScaleFactor(var_name, is_evap, c)
        var1 == [j \in Lat |-> [i \in Lon |-> Mul(FIELD[j][i], scale_factor)]]
    IN  [j \in Lat |-> [i \in Lon |-> Mul(var1[j][i], area2d[j][i])]]

----------------------------------------------------------------------------
(* TendencyEstimator *)

secperday == 86400

vfill_value == [j \in Lat |-> [i \in Lon |-> NaN]]

\* the assignment lost
SetItemNoWrite(arr, t, val) == arr

\* arr[t] = val : DataArray.__setitem__ writes into the array of the object
SetItem(arr, t, val) == [arr EXCEPT ![t] = val]

\* arr[lo:hi].values = vals : arr[lo:hi] is a new DataArray, and the values
\* setter rebinds the data of that temporary object; arr keeps its values
SetSliceValues(arr, lo, hi, vals) == arr

\* length of the elementwise combination of two numpy arrays of lengths a, b
BroadcastLen(a, b) == IF a = b THEN a ELSE IF a = 1 THEN b ELSE IF b = 1 THEN a ELSE 0

\* the pairs of time indices that x[lo1:hi1].values (op) x[lo2:hi2].values
\* combines, in order
SlicePairs(lo1, hi1, lo2, hi2, n) ==
    LET a == SliceLen(lo1, hi1, n)
        b == SliceLen(lo2, hi2, n)
    IN  [m \in 1 .. BroadcastLen(a, b) |->
            <<SliceLo(lo1, n) + (IF a = 1 THEN 0 ELSE m - 1),
              SliceLo(lo2, n) + (IF b = 1 THEN 0 ELSE m - 1)>>]

MidPoint(a, b) == Mul(Add(a, b), Half)

\* returns the values the argument object holds after the call (var_zint)
\* and the returned tendency (ret)
\* var2 = var1 names the same object, so one chain of values o1 .. o5 stands
\* for both
tracer_budget_tend_appr(n, tb, vz) ==
    LET dt == [t \in 0 .. n - 1 |-> Mul(Sub(tb[t][1], tb[t][0]), Num(secperday))]
        var1 == vz
        pa == SlicePairs(0, n - 2, 1, n - 1, n)
        aux == [m \in DOMAIN pa |-> [j \in Lat |-> [i \in Lon |->
                   MidPoint(var1[pa[m][1]][j][i], var1[pa[m][2]][j][i])]]]
        o1 == SetSliceValues(var1, 0, n - 2, aux)
        o2 == SetItem(o1, n - 1, vfill_value)
        pd == SlicePairs(1, n - 2, 0, n - 3, n)
        dif == [m \in DOMAIN pd |-> [j \in Lat |-> [i \in Lon |->
                   Sub(o2[pd[m][1]][j][i], o2[pd[m][2]][j][i])]]]
        o3 == SetSliceValues(o2, 1, n - 2, dif)
        o4 == SetItem(o3, 0, vfill_value)
        o5 == SetItem(o4, n - 1, vfill_value)
    IN  [var_zint |-> o5,
         ret |-> [t \in 0 .. n - 1 |-> [j \in Lat |-> [i \in Lon |->
                     Div(o5[t][j][i], dt[t])]]]]

----------------------------------------------------------------------------
(* Inputs *)

RegionIds == {-1, 0, 1, 2}

FluxVals == {-1, 0, 2}

TracerNames == {"TEMP", "SALT"}

SfluxNames == {"SHF", "SNOW_F", "EVAP_F", "TAUX"}

\* a horizontal field equal to b everywhere except for s at column (j0, i0)
Field2(b, s, j0, i0) ==
    [j \in Lat |-> [i \in Lon |-> IF j = j0 /\ i = i0 THEN s ELSE b]]

\* a (z, nlat, nlon) field equal to b everywhere except for s at cell (k0, j0, i0)
Field3(b, s, k0, j0, i0) ==
    [k \in Z |-> [j \in Lat |-> [i \in Lon |->
        IF k = k0 /\ j = j0 /\ i = i0 THEN s ELSE b]]]

\* a dataset variable read with mask_and_scale: missing below the sea floor
LandMasked(f, kmtF) ==
    [k \in Z |-> [j \in Lat |-> [i \in Lon |-> Where(f[k][j][i], kmtF[j][i] > k)]]]

GridArea(a0) == [j \in Lat |-> [i \in Lon |-> Num(a0 + j)]]

GridDz(d0, grow) == [k \in Z |-> Num(IF grow THEN d0 * (k + 1) ELSE d0)]

NoCall == fn = "none" /\ args = Unset /\ out = Unset

InitGeom ==
    /\ \E a0 \in 1 .. 2, d0 \in {1, 10}, grow \in BOOLEAN :
          /\ tarea = GridArea(a0)
          /\ dz = GridDz(d0, grow)
    /\ \E j0 \in Lat, i0 \in Lon :
          /\ \E kb \in 0 .. NZ, kd \in 0 .. NZ : kmt = Field2(kb, kd, j0, i0)
          /\ \E rb \in RegionIds, rs \in RegionIds :
                region_mask = Field2(rb, rs, j0, i0)
    /\ vol3d = Unset
    /\ ds1 = Unset /\ ds2 = Unset /\ consts = Unset
    /\ nt = 0 /\ time_bnd = Unset /\ var_zint = Unset
    /\ NoCall

InitFlux ==
    /\ tarea = GridArea(1)
    /\ dz = GridDz(10, TRUE)
    /\ region_mask = Unset
    /\ \E k0 \in Z, j0 \in Lat, i0 \in Lon :
          /\ \E kd \in 0 .. NZ : kmt = Field2(NZ, kd, j0, i0)
          /\ \E b1 \in FluxVals, s1 \in FluxVals, b2 \in FluxVals,
                hole \in BOOLEAN, masked \in BOOLEAN :
                LET f1 == Field3(Num(b1), IF hole THEN NaN ELSE Num(s1), k0, j0, i0)
                    f2 == Field3(Num(b2), IF hole THEN NaN ELSE Num(s1), k0, j0, i0)
                IN  /\ ds1 = IF masked THEN LandMasked(f1, kmt) ELSE f1
                    /\ ds2 = IF masked THEN LandMasked(f2, kmt) ELSE f2
    /\ vol3d = tracer_budget_vol3d(tarea, dz, kmt)
    /\ consts = [rho_sw |-> Num(1), cp_sw |-> Num(40000000),
                 latent_heat_vapor |-> Num(2500000),
                 latent_heat_fusion |-> Num(1000000000)]
    /\ nt = 0 /\ time_bnd = Unset /\ var_zint = Unset
    /\ NoCall

InitTend ==
    /\ tarea = Unset /\ dz = Unset /\ kmt = Unset /\ region_mask = Unset
    /\ vol3d = Unset /\ ds1 = Unset /\ ds2 = Unset /\ consts = Unset
    /\ nt \in 1 .. MaxNT
    /\ \E d0 \in 1 .. 2, d1 \in 0 .. 1 :
          time_bnd = [t \in 0 .. nt - 1 |->
                         LET start == t * d0 + (t \div 2) * d1
                         IN  [b \in 0 .. 1 |->
                                Num(start + b * (d0 + (t % 2) * d1))]]
    /\ \E c \in {0, 1, 3}, s \in {0, 1}, t0 \in 0 .. nt - 1, j0 \in Lat, i0 \in Lon,
          w \in {"same", "nan", "bump"} :
          var_zint = [t \in 0 .. nt - 1 |-> [j \in Lat |-> [i \in Lon |->
                         IF t = t0 /\ j = j0 /\ i = i0 /\ w = "nan" THEN NaN
                         ELSE IF t = t0 /\ j = j0 /\ i = i0 /\ w = "bump"
                              THEN Num(c + s * t * t + 4)
                              ELSE Num(c + s * t * t)]]]
    /\ NoCall

----------------------------------------------------------------------------
(* Calls *)

Frame == UNCHANGED <<tarea, dz, kmt, region_mask, ds1, ds2, consts, nt, time_bnd>>

CallVol3d ==
    /\ fn = "none"
    /\ fn' = "vol3d"
    /\ args' = Unset
    /\ out' = tracer_budget_vol3d(tarea, dz, kmt)
    /\ vol3d' = out'
    /\ Frame /\ UNCHANGED var_zint

CallMask2d ==
    /\ fn = "none"
    /\ \E sel_area \in RegionIds :
          /\ fn' = "mask2d"
          /\ args' = [sel_area |-> sel_area]
          /\ out' = tracer_budget_mask2d(region_mask, sel_area)
    /\ Frame /\ UNCHANGED <<vol3d, var_zint>>

CallMask3d ==
    /\ fn = "none" /\ vol3d # Unset
    /\ fn' = "mask3d"
    /\ args' = Unset
    /\ out' = tracer_budget_mask3d(vol3d)
    /\ Frame /\ UNCHANGED <<vol3d, var_zint>>

CallLatAdv ==
    /\ fn = "none"
    /\ \E TRACER \in TracerNames :
          /\ fn' = "lat_adv_resolved"
          /\ args' = [TRACER |-> TRACER]
          /\ out' = tracer_budget_lat_adv_resolved(vol3d, ds1, ds2)
    /\ Frame /\ UNCHANGED <<vol3d, var_zint>>

CallHmix ==
    /\ fn = "none"
    /\ \E TRACER \in TracerNames :
          /\ fn' = "hmix"
          /\ args' = [TRACER |-> TRACER]
          /\ out' = tracer_budget_hmix(vol3d, ds1, ds2)
    /\ Frame /\ UNCHANGED <<vol3d, var_zint>>

CallVertAdv ==
    /\ fn = "none"
    /\ \E TRACER \in TracerNames :
          /\ fn' = "vert_adv_resolved"
          /\ args' = [TRACER |-> TRACER]
          /\ out' = tracer_budget_vert_adv_resolved(vol3d, ds1)
    /\ Frame /\ UNCHANGED <<vol3d, var_zint>>

CallDiaVmix ==
    /\ fn = "none"
    /\ \E klo \in Z, khi \in Z :
          /\ klo < khi
          /\ fn' = "dia_vmix"
          /\ args' = [klo |-> klo, khi |-> khi]
          /\ out' = tracer_budget_dia_vmix(tarea, kmt, klo, khi, ds1)
    /\ Frame /\ UNCHANGED <<vol3d, var_zint>>

CallAdiVmix ==
    /\ fn = "none"
    /\ \E klo \in Z, khi \in Z :
          /\ klo < khi
          /\ fn' = "adi_vmix"
          /\ args' = [klo |-> klo, khi |-> khi]
          /\ out' = tracer_budget_adi_vmix(vol3d, klo, khi, ds1)
    /\ Frame /\ UNCHANGED <<vol3d, var_zint>>

CallZintMap ==
    /\ fn = "none"
    /\ \E klo \in Z, khi \in 1 .. NZ :
          /\ klo < khi
          /\ fn' = "var3d_zint_map"
          /\ args' = [klo |-> klo, khi |-> khi]
          /\ out' = tracer_budget_var3d_zint_map(ds1, vol3d, klo, khi)
    /\ Frame /\ UNCHANGED <<vol3d, var_zint>>

\* a surface variable has no level axis: it is the first slab of ds1
CallSflux ==
    /\ fn = "none"
    /\ \E var_name \in SfluxNames, is_evap \in BOOLEAN :
          /\ is_evap => var_name = "EVAP_F"
          /\ fn' = "sflux"
          /\ args' = [var_name |-> var_name, is_evap |-> is_evap]
          /\ out' = tracer_budget_sflux(var_name, is_evap, tarea, consts, ds1[0])
    /\ Frame /\ UNCHANGED <<vol3d, var_zint>>

CallTendAppr ==
    /\ fn = "none"
    /\ LET r == tracer_budget_tend_appr(nt, time_bnd, var_zint)
       IN  /\ fn' = "tend_appr"
           /\ args' = [var_zint |-> var_zint]
           /\ out' = r.ret
           /\ var_zint' = r.var_zint
    /\ Frame /\ UNCHANGED vol3d

\* the caller takes the result; the next call can follow
Return ==
    /\ fn # "none"
    /\ fn' = "none" /\ args' = Unset /\ out' = Unset
    /\ Frame /\ UNCHANGED <<vol3d, var_zint>>

NextGeom == CallVol3d \/ CallMask2d \/ CallMask3d \/ Return

NextFlux ==
    \/ CallLatAdv \/ CallHmix \/ CallVertAdv \/ CallDiaVmix
    \/ CallAdiVmix \/ CallZintMap \/ CallSflux \/ Return

NextTend == CallTendAppr \/ Return

SpecGeom == InitGeom /\ [][NextGeom]_vars

SpecFlux == InitFlux /\ [][NextFlux]_vars

SpecTend == InitTend /\ [][NextTend]_vars

----------------------------------------------------------------------------
(* Properties *)

Defined(x) == ~IsNaN(x)

\* C1: the volume returned by tracer_budget_vol3d is missing at every cell
\* with k >= kmt and equals dz[k] * tarea elsewhere
C1_Vol3dCells ==
    fn = "vol3d" =>
        \A k \in Z, j \in Lat, i \in Lon :
            out[k][j][i] = IF k >= kmt[j][i] THEN NaN ELSE Mul(dz[k], tarea[j][i])

\* the scenario area 1, thickness 10, 10, bottom level 1: 10 above, missing below
C1_Witness ==
    /\ fn = "vol3d"
    /\ dz[0] = Num(10) /\ dz[1] = Num(10)
    /\ \E j \in Lat, i \in Lon :
          /\ kmt[j][i] = 1 /\ tarea[j][i] = Num(1)
          /\ out[0][j][i] = Num(10) /\ out[1][j][i] = NaN

\* C2: with at least two time samples the tendency is missing at every cell
\* of the first and of the last time index
C2_EdgesMissing ==
    (fn = "tend_appr" /\ nt >= 2) =>
        \A j \in Lat, i \in Lon : out[0][j][i] = NaN /\ out[nt - 1][j][i] = NaN

C2_Witness ==
    /\ fn = "tend_appr" /\ nt >= 3
    /\ \A t \in 0 .. nt - 1, j \in Lat, i \in Lon : Defined(args.var_zint[t][j][i])
    /\ \A j \in Lat, i \in Lon :
          out[0][j][i] = NaN /\ out[nt - 1][j][i] = NaN /\ Defined(out[1][j][i])

ConstantInTime(f) ==
    \A t \in DOMAIN f, j \in Lat, i \in Lon :
        Defined(f[t][j][i]) /\ f[t][j][i] = f[0][j][i]

\* C3: for an input that is constant in time, the tendency is exactly zero at
\* every interior time index
C3_ConstantGivesZero ==
    (fn = "tend_appr" /\ ConstantInTime(args.var_zint)) =>
        \A n \in 1 .. nt - 2, j \in Lat, i \in Lon : out[n][j][i] = Zero

\* C4: horizontal mixing is the negation of lateral advection on the same
\* inputs, missing exactly where the other is missing
C4_HmixNegatesLatAdv ==
    /\ fn = "hmix" =>
          \A j \in Lat, i \in Lon :
              out[j][i] = Neg(tracer_budget_lat_adv_resolved(vol3d, ds1, ds2)[j][i])
    /\ fn = "lat_adv_resolved" =>
          \A j \in Lat, i \in Lon :
              out[j][i] = Neg(tracer_budget_hmix(vol3d, ds1, ds2)[j][i])

C4_Witness ==
    /\ fn = "hmix"
    /\ \E j \in Lat, i \in Lon : Defined(out[j][i]) /\ out[j][i][1] > 0
    /\ \E j \in Lat, i \in Lon : out[j][i] = NaN

\* C5: in a column with klo < kmt <= khi diabatic vertical mixing returns
\* FIELD[klo] * tarea, whatever FIELD[khi] is
C5_BottomSuppressed ==
    fn = "dia_vmix" =>
        \A j \in Lat, i \in Lon :
            (args.klo < kmt[j][i] /\ kmt[j][i] <= args.khi) =>
                out[j][i] = Mul(ds1[args.klo][j][i], tarea[j][i])

C5_Witness ==
    /\ fn = "dia_vmix"
    /\ \E j \in Lat, i \in Lon :
          /\ args.klo < kmt[j][i] /\ kmt[j][i] <= args.khi
          /\ ds1[args.khi][j][i] = NaN
          /\ Defined(out[j][i]) /\ out[j][i] # Zero

BudgetTerms == {"lat_adv_resolved", "vert_adv_resolved", "hmix", "dia_vmix",
                "adi_vmix", "sflux", "var3d_zint_map"}

MaskedTerms == {"lat_adv_resolved", "hmix", "var3d_zint_map"}

\* C6 as stated: no budget term returns a zero-valued cell
C6_NoZeroAnyTerm ==
    fn \in BudgetTerms => \A j \in Lat, i \in Lon : out[j][i] # Zero

\* C6: the terms that sum over levels (lateral advection, horizontal mixing,
\* vertical integral) return no zero-valued cell
C6_NoZeroSummedTerms ==
    fn \in MaskedTerms => \A j \in Lat, i \in Lon : out[j][i] # Zero

\* a column whose operands are all defined and whose sum is zero is returned missing
C6_Witness ==
    /\ fn = "lat_adv_resolved"
    /\ \E j \in Lat, i \in Lon :
          /\ j + 1 \in Lat /\ i + 1 \in Lon
          /\ \A k \in Z :
                /\ Defined(vol3d[k][j][i]) /\ Defined(vol3d[k][j + 1][i])
                /\ Defined(vol3d[k][j][i + 1])
                /\ Defined(ds1[k][j][i]) /\ Defined(ds1[k][j + 1][i])
                /\ Defined(ds2[k][j][i]) /\ Defined(ds2[k][j][i + 1])
          /\ out[j][i] = NaN

\* C7: after a call the array passed in holds the values it held before the call
C7_ArgumentUnchanged ==
    fn = "tend_appr" => var_zint = args.var_zint

\* C8 as stated: 1 exactly where region_mask != sel_area, missing elsewhere
C8_OneWhereNotSelected ==
    fn = "mask2d" =>
        \A j \in Lat, i \in Lon :
            out[j][i] = IF region_mask[j][i] # args.sel_area THEN One ELSE NaN

\* C8: 1 exactly where region_mask is neither sel_area nor 0, missing elsewhere
C8_OneWhereNotSelectedNonZero ==
    fn = "mask2d" =>
        \A j \in Lat, i \in Lon :
            out[j][i] = IF region_mask[j][i] # args.sel_area /\ region_mask[j][i] # 0
                        THEN One ELSE NaN

C8_Witness ==
    /\ fn = "mask2d" /\ args.sel_area # 0
    /\ \E j \in Lat, i \in Lon : region_mask[j][i] = 0 /\ out[j][i] = NaN
    /\ \E j \in Lat, i \in Lon :
          region_mask[j][i] \notin {0, args.sel_area} /\ out[j][i] = One

\* C9: at 1 <= n < N-2 the tendency is (mid[n] - mid[n-1]) / dt[n] with
\* mid[m] = 0.5 * (field[m] + field[m+1]) taken from the input field
C9_CenteredDifference ==
    fn = "tend_appr" =>
        \A n \in 1 .. nt - 3, j \in Lat, i \in Lon :
            LET f == args.var_zint
                mid(m) == Mul(Half, Add(f[m][j][i], f[m + 1][j][i]))
                dtn == Mul(Sub(time_bnd[n][1], time_bnd[n][0]), Num(secperday))
            IN  out[n][j][i] = Div(Sub(mid(n), mid(n - 1)), dtn)

\* C10: the west operands are the east-face operands shifted along nlon, the
\* south operands the north-face operands shifted along nlat, missing at the
\* last index, where the returned map is missing too
C10_ShiftAxes ==
    fn \in {"lat_adv_resolved", "hmix"} =>
        LET o == DivOperands(ds1, ds2, vol3d)
        IN  \A k \in Z, j \in Lat, i \in Lon :
                /\ o.u_w[k][j][i] = IF i + 1 \in Lon THEN ds1[k][j][i + 1] ELSE NaN
                /\ o.vol_w[k][j][i] = IF i + 1 \in Lon THEN vol3d[k][j][i + 1] ELSE NaN
                /\ o.v_s[k][j][i] = IF j + 1 \in Lat THEN ds2[k][j + 1][i] ELSE NaN
                /\ o.vol_s[k][j][i] = IF j + 1 \in Lat THEN vol3d[k][j + 1][i] ELSE NaN
                /\ (i + 1 \notin Lon \/ j + 1 \notin Lat) => out[j][i] = NaN

====
